---- MODULE Spec2Model ----
(***************************************************************************)
(* Model of jira-bot.go: the dispatch loop of main, handleIncomingMessage, *)
(* respondToIssueMentioned, the message filter, the identifier extractor   *)
(* and the reply formatter.                                                *)
(*                                                                         *)
(* Strings that the code inspects character by character (message texts,   *)
(* issue identifiers) are sequences of one-character strings.  Strings     *)
(* that the code only concatenates (the reply) are sequences of chunks,    *)
(* concatenated with \o.  Names that are only compared (user names,        *)
(* subtypes, channels) are TLA+ strings.                                   *)
(***************************************************************************)
EXTENDS Integers, Sequences, FiniteSets, TLC

VARIABLES
    events,     \* rtm.IncomingEvents: events delivered and not yet consumed
    delivered,  \* number of events the transport has delivered so far
    pc,         \* position of the main goroutine
    message,    \* handleIncomingMessage: its argument
    matches,    \* handleIncomingMessage: matches
    i,          \* handleIncomingMessage: loop index
    issueData,  \* respondToIssueMentioned: issueData
    consumed,   \* history: the message events consumed, in order
    ignored,    \* history: numbers of the messages the filter rejected
    extracted,  \* history: matches of each message handled (none if rejected)
    called,     \* history: calls of respondToIssueMentioned
    fetches,    \* history: calls of jira.Issue
    posts,      \* history: calls of api.PostMessage
    faulted,    \* history: calls of respondToIssueMentioned that panicked
    fromBot,    \* history: numbers of the consumed messages that are the
                \* bot's own replies coming back on the event stream
    echoed,     \* history: the posts the transport has delivered back
    logs        \* history: log output

vars == <<events, delivered, pc, message, matches, i, issueData,
          consumed, ignored, extracted, called, fetches, posts, faulted,
          fromBot, echoed, logs>>

----------------------------------------------------------------------------
(* Characters: \w, \d, \b of Go's regexp (ASCII classes) and              *)
(* strings.ToUpper.                                                        *)

LowerLetters == <<"a","b","c","d","e","f","g","h","i","j","k","l","m",
                  "n","o","p","q","r","s","t","u","v","w","x","y","z">>

UpperLetters == <<"A","B","C","D","E","F","G","H","I","J","K","L","M",
                  "N","O","P","Q","R","S","T","U","V","W","X","Y","Z">>

DigitChars == {"0","1","2","3","4","5","6","7","8","9"}

Range(s) == {s[k] : k \in 1..Len(s)}

IsDigit(c) == c \in DigitChars

\* \w is [0-9A-Za-z_]
WordChars ==
    DigitChars \cup Range(LowerLetters) \cup Range(UpperLetters) \cup {"_"}

IsWordChar(c) == c \in WordChars

ToUpperCharIdentity(c) == c

ToUpperChar(c) ==
    IF c \in Range(LowerLetters)
    THEN UpperLetters[CHOOSE k \in 1..Len(LowerLetters) : LowerLetters[k] = c]
    ELSE c

ToUpper(s) == [k \in 1..Len(s) |-> ToUpperChar(s[k])]

WordAt(t, p) == p \in 1..Len(t) /\ IsWordChar(t[p])

BoundaryNone(t, p) == TRUE

\* \b between position p-1 and position p of t
Boundary(t, p) == WordAt(t, p - 1) # WordAt(t, p)

\* The ways `\b(\w+)-(\d+)\b` matches t starting at position s:
\* <<j, k>> with the hyphen at j and the last digit at k.
MatchEnds(t, s) ==
    IF ~Boundary(t, s) THEN {}
    ELSE LET js == {j \in (s + 1)..Len(t) :
                       /\ t[j] = "-"
                       /\ \A p \in s..(j - 1) : IsWordChar(t[p])}
             ks(j) == {k \in (j + 1)..Len(t) :
                         /\ \A p \in (j + 1)..k : IsDigit(t[p])
                         /\ Boundary(t, k + 1)}
         IN  UNION {{<<j, k>> : k \in ks(j)} : j \in js}

\* Greedy quantifiers, leftmost-first: the longest \w+ that lets the rest
\* match, then the longest \d+.
MatchEnd(t, s) ==
    LET js == {jk[1] : jk \in MatchEnds(t, s)}
        j  == CHOOSE x \in js : \A y \in js : y <= x
        ks == {jk[2] : jk \in {m \in MatchEnds(t, s) : m[1] = j}}
    IN  CHOOSE x \in ks : \A y \in ks : y <= x

FirstStartAnchored(t, pos) ==
    IF pos <= Len(t) /\ MatchEnds(t, pos) # {} THEN pos ELSE 0

\* The leftmost position >= pos where the pattern matches, 0 when none
FirstStart(t, pos) ==
    LET starts == {s \in pos..Len(t) : MatchEnds(t, s) # {}}
    IN  IF starts = {} THEN 0
        ELSE CHOOSE x \in starts : \A y \in starts : x <= y

RECURSIVE FindAllFrom(_, _)
FindAllFrom(t, pos) ==
    LET s == FirstStart(t, pos)
    IN  IF s = 0 THEN <<>>
        ELSE <<SubSeq(t, s, MatchEnd(t, s))>> \o FindAllFrom(t, MatchEnd(t, s) + 1)

\* re.FindAllString(message, -1): successive non-overlapping matches
FindAllString(t) == FindAllFrom(t, 1)

RECURSIVE DedupCaseSensitive(_, _, _, _)
DedupCaseSensitive(ms, v, encountered, result) ==
    IF v > Len(ms) THEN result
    ELSE IF ms[v] \in encountered
         THEN DedupCaseSensitive(ms, v + 1, encountered, result)
         ELSE DedupCaseSensitive(ms, v + 1, encountered \cup {ms[v]},
                                 Append(result, ToUpper(ms[v])))

\* The loop `for v := range matches` of extractIssueIDs
RECURSIVE Dedup(_, _, _, _)
Dedup(ms, v, encountered, result) ==
    IF v > Len(ms) THEN result
    ELSE LET m == ToUpper(ms[v])
         IN  IF m \in encountered
             THEN Dedup(ms, v + 1, encountered, result)
             ELSE Dedup(ms, v + 1, encountered \cup {m}, Append(result, m))

extractIssueIDs(t) == Dedup(FindAllString(t), 1, {}, <<>>)

----------------------------------------------------------------------------
(* Configuration, filter, formatter                                        *)

\* getConfig().Username
BotUsername == "JiraBot"

\* getConfig().JiraBaseURL: os.Getenv("JIRA_BASEURL"), one fixed value here
JiraBaseURL == <<"https://jira.example.org">>

shouldIgnoreMessageBoth(m) ==
    m.Username = BotUsername /\ m.SubType = "bot_message"

shouldIgnoreMessage(m) ==
    m.Username = BotUsername \/ m.SubType = "bot_message"

getJiraURLNoBrowse(issueKey) == JiraBaseURL \o <<"/">> \o issueKey

getJiraURL(issueKey) == JiraBaseURL \o <<"/browse/">> \o issueKey

\* A Go pointer is a sequence of length 0 (nil) or 1 (the value pointed to).
Nil == <<>>

Ptr(x) == <<x>>

\* The zero value of gojira.Issue; CreatedAt holds the text of
\* issue.CreatedAt.Unix()
ZeroIssue == [Key |-> <<>>, Fields |-> Nil, CreatedAt |-> "-62135596800"]

\* formatMessage dereferences issue.Fields and, through it, Reporter and
\* Assignee; a nil pointer among them panics.  Otherwise the three
\* Sprintf results are written to the buffer in order.
formatMessage(issue) ==
    IF issue.Fields = Nil
    THEN [panic |-> TRUE, text |-> <<>>]
    ELSE IF issue.Fields[1].Reporter = Nil \/ issue.Fields[1].Assignee = Nil
    THEN [panic |-> TRUE, text |-> <<>>]
    ELSE [panic |-> FALSE,
          text |->
             <<"> <">> \o getJiraURL(issue.Key) \o <<"|">> \o issue.Key
             \o <<"> :traffic_light: *Status:* ", issue.Fields[1].Status.Name,
                  " :memo: *Summary:* ", issue.Fields[1].Summary, "\n">>
             \o <<"> :bust_in_silhouette: *Creator:* ",
                  issue.Fields[1].Reporter[1].DisplayName,
                  ", *Assignee:* ",
                  issue.Fields[1].Assignee[1].DisplayName, "\n">>
             \o <<"> :calendar: *Created:* <!date^", issue.CreatedAt,
                  "^{date} at {time}|", issue.Fields[1].Created, ">">>]

----------------------------------------------------------------------------
(* The collaborators: what the tracker and the chat transport can answer   *)

Assignees == {Nil, Ptr([DisplayName |-> "carol"])}

\* What jira.Issue(issueID) returns when it returns: a ticket with the
\* requested key, assigned or not, or the zero Issue (the response body did
\* not unmarshal into a ticket).
TrackerIssues(issueID) ==
    {ZeroIssue} \cup
    {[Key |-> issueID,
      Fields |-> Ptr([Status   |-> [Name |-> "Open"],
                      Summary  |-> "Fix login",
                      Reporter |-> Ptr([DisplayName |-> "bob"]),
                      Assignee |-> a,
                      Created  |-> "2016-01-02T03:04:05.000+0000"]),
      CreatedAt |-> "1451703845"] : a \in Assignees}

\* What api.PostMessage returns; the code drops the result.
PostResults == {"ok", "error"}

----------------------------------------------------------------------------
(* Inputs                                                                  *)

\* Bounds of the model
MaxLen == 4

MaxEvents == 2

MaxUserMessages == 1

MaxEchoes == 2

Alphabet == {"a", "B", "1", "-", "_", " "}

RECURSIVE StringsUpTo(_)
StringsUpTo(n) ==
    IF n = 0 THEN {<<>>}
    ELSE LET shorter == StringsUpTo(n - 1)
         IN  shorter \cup {Append(t, c) : t \in {u \in shorter : Len(u) = n - 1},
                                          c \in Alphabet}

TextOrder == <<"s","e","e"," ","A","B","C","-","1"," ","a","n","d"," ",
               "a","b","c","-","1"," ","a","n","d"," ","D","E","F","-","2">>

TextFlanked == <<"X","A","B","C","-","1","2","3","X">>

TextParens == <<"(","A","B","C","-","1","2","3",")">>

TextHello == <<"h","e","l","l","o"," ","w","o","r","l","d">>

TextCheck == <<"c","h","e","c","k"," ","P","R","O","J","-","4","2"," ",
               "p","l","e","a","s","e">>

TextTwo == <<"A","B","C","-","1"," ","D","E","F","-","2">>

TextChain == <<"A","-","1","-","2">>

ExampleTexts ==
    {TextOrder, TextFlanked, TextParens, TextHello, TextCheck, TextTwo, TextChain}

Channels == {"C1", "C2"}

Usernames == {BotUsername, "alice"}

SubTypes == {"", "bot_message"}

Msgs(texts) ==
    [Text : texts, Channel : Channels, Username : Usernames, SubType : SubTypes]

\* The messages handleIncomingMessage is run on by itself
HandlerMessages == Msgs(StringsUpTo(MaxLen) \cup ExampleTexts)

\* The texts of the messages the transport delivers to the dispatch loop
LoopTexts == {TextCheck, TextTwo, TextHello}

\* The messages the transport delivers to the dispatch loop: from a user
\* on either channel, and rejected ones from the bot and from integrations
LoopMessages ==
    [Text : LoopTexts, Channel : Channels,
     Username : {"alice"}, SubType : {""}]
    \cup {[Text |-> TextTwo, Channel |-> "C1", Username |-> BotUsername,
           SubType |-> ""],
          [Text |-> TextTwo, Channel |-> "C1", Username |-> "alice",
           SubType |-> "bot_message"],
          [Text |-> TextCheck, Channel |-> "C2", Username |-> BotUsername,
           SubType |-> "bot_message"]}

\* The events the transport delivers to the dispatch loop
LoopEvents ==
    {[type |-> "message", msg |-> m, echo |-> FALSE] : m \in LoopMessages}
    \cup {[type |-> "latency"], [type |-> "rtm_error"],
          [type |-> "invalid_auth"], [type |-> "other"]}

----------------------------------------------------------------------------
(* The program                                                             *)

ZeroMsg == [Text |-> <<>>, Channel |-> "", Username |-> "", SubType |-> ""]

Init ==
    /\ events = <<>>
    /\ delivered = 0
    /\ pc = "select"
    /\ message = ZeroMsg
    /\ matches = <<>>
    /\ i = 0
    /\ issueData = ZeroIssue
    /\ consumed = <<>>
    /\ ignored = {}
    /\ extracted = <<>>
    /\ called = <<>>
    /\ fetches = <<>>
    /\ posts = <<>>
    /\ faulted = {}
    /\ fromBot = {}
    /\ echoed = {}
    /\ logs = <<>>

\* handleIncomingMessage called directly on one message
HandlerInit ==
    /\ message \in HandlerMessages
    /\ consumed = <<message>>
    /\ pc = "handle"
    /\ events = <<>>
    /\ delivered = 0
    /\ matches = <<>>
    /\ i = 0
    /\ issueData = ZeroIssue
    /\ ignored = {}
    /\ extracted = <<>>
    /\ called = <<>>
    /\ fetches = <<>>
    /\ posts = <<>>
    /\ faulted = {}
    /\ fromBot = {}
    /\ echoed = {}
    /\ logs = <<>>

\* The number of the message being handled
msgNo == Len(consumed)

\* rtm.ManageConnection puts one of the events evs on rtm.IncomingEvents
DeliverUpTo(limit, evs) ==
    /\ delivered < limit
    /\ \E ev \in evs : events' = Append(events, ev)
    /\ delivered' = delivered + 1
    /\ UNCHANGED <<pc, message, matches, i, issueData, consumed, ignored,
                   extracted, called, fetches, posts, faulted, fromBot,
                   echoed, logs>>

\* The transport delivers any event
Deliver == DeliverUpTo(MaxEvents, LoopEvents)

\* The transport delivers a message event
DeliverMessage ==
    DeliverUpTo(MaxUserMessages, {ev \in LoopEvents : ev.type = "message"})

SelectMessageAnyPc ==
    /\ events # <<>>
    /\ Head(events).type = "message"
    /\ events' = Tail(events)
    /\ message' = Head(events).msg
    /\ consumed' = Append(consumed, Head(events).msg)
    /\ fromBot' = IF Head(events).echo THEN fromBot \cup {msgNo + 1}
                   ELSE fromBot
    /\ pc' = "handle"
    /\ UNCHANGED <<delivered, matches, i, issueData, ignored, extracted,
                   called, fetches, posts, faulted, echoed, logs>>

\* main: the select receives a message event and calls handleIncomingMessage
SelectMessage ==
    /\ pc = "select"
    /\ events # <<>>
    /\ Head(events).type = "message"
    /\ events' = Tail(events)
    /\ message' = Head(events).msg
    /\ consumed' = Append(consumed, Head(events).msg)
    /\ fromBot' = IF Head(events).echo THEN fromBot \cup {msgNo + 1}
                   ELSE fromBot
    /\ pc' = "handle"
    /\ UNCHANGED <<delivered, matches, i, issueData, ignored, extracted,
                   called, fetches, posts, faulted, echoed, logs>>

SelectOtherFatal ==
    /\ pc = "select"
    /\ events # <<>>
    /\ Head(events).type # "message"
    /\ events' = Tail(events)
    /\ logs' = Append(logs, <<"main: ", Head(events).type>>)
    /\ pc' = IF Head(events).type = "invalid_auth" THEN "crashed" ELSE pc
    /\ UNCHANGED <<delivered, message, matches, i, issueData, consumed,
                   ignored, extracted, called, fetches, posts, faulted,
                   fromBot, echoed>>

\* main: the select receives any other event
SelectOther ==
    /\ pc = "select"
    /\ events # <<>>
    /\ Head(events).type # "message"
    /\ events' = Tail(events)
    /\ logs' = IF Head(events).type = "latency"
                 THEN Append(logs, <<"main: Current latency">>)
               ELSE IF Head(events).type = "rtm_error"
                 THEN Append(logs, <<"main: Error">>)
               ELSE IF Head(events).type = "invalid_auth"
                 THEN Append(logs, <<"main: Invalid credentials">>)
               ELSE logs
    /\ UNCHANGED <<delivered, pc, message, matches, i, issueData, consumed,
                   ignored, extracted, called, fetches, posts, faulted,
                   fromBot, echoed>>

\* extractIssueIDs on the texts of the loop's events, evaluated once
LoopExtractions == [t \in LoopTexts |-> extractIssueIDs(t)]

\* matches := extractIssueIDs(messageText)
matchesOf(t) ==
    IF t \in LoopTexts THEN LoopExtractions[t] ELSE extractIssueIDs(t)

\* handleIncomingMessage up to the loop: the filter, then the extraction
Handle ==
    /\ pc = "handle"
    /\ IF shouldIgnoreMessage(message)
       THEN /\ logs' = Append(logs, <<"handleMessage: Ignoring message">>)
            /\ ignored' = ignored \cup {msgNo}
            /\ extracted' = Append(extracted, <<>>)
            /\ pc' = "select"
            /\ UNCHANGED <<matches, i>>
       ELSE /\ matches' = matchesOf(message.Text)
            /\ extracted' = Append(extracted, matches')
            /\ i' = 0
            /\ pc' = "loop"
            /\ UNCHANGED <<logs, ignored>>
    /\ UNCHANGED <<events, delivered, message, issueData, consumed, called,
                   fetches, posts, faulted, fromBot, echoed>>

LoopCondOffByOne(n, ms) == n < Len(ms) - 1

\* i < len(matches)
LoopCond(n, ms) == n < Len(ms)

issueIDReversed == matches[Len(matches) - i]

\* issueID := matches[i]
issueID == matches[i + 1]

LoopAsync ==
    /\ pc = "loop"
    /\ IF LoopCond(i, matches)
       THEN /\ logs' = Append(logs, <<"handleMessage: Identified ", issueID,
                                      " in message">>)
            /\ called' = Append(called,
                                 [msg |-> msgNo, idx |-> i, id |-> issueID])
            /\ i' = i + 1
            /\ pc' = "loop"
       ELSE /\ pc' = "select"
            /\ UNCHANGED <<logs, called, i>>
    /\ UNCHANGED <<events, delivered, message, matches, issueData,
                   consumed, ignored, extracted, fetches, posts, faulted,
                   fromBot, echoed>>

\* The loop of handleIncomingMessage: call respondToIssueMentioned for
\* matches[i], or return to main
Loop ==
    /\ pc = "loop"
    /\ IF LoopCond(i, matches)
       THEN /\ logs' = Append(logs, <<"handleMessage: Identified ", issueID,
                                      " in message">>)
            /\ called' = Append(called,
                                 [msg |-> msgNo, idx |-> i, id |-> issueID])
            /\ pc' = "fetch"
       ELSE /\ pc' = "select"
            /\ UNCHANGED <<logs, called>>
    /\ UNCHANGED <<events, delivered, message, matches, i, issueData,
                   consumed, ignored, extracted, fetches, posts, faulted,
                   fromBot, echoed>>

AfterPanicPropagates(e) == "crashed"

\* The deferred function of respondToIssueMentioned recovers the panic e,
\* so the call returns to the loop of handleIncomingMessage.
AfterPanic(e) == "loop"

PanickedRetry(e) ==
    /\ logs' = Append(logs, <<"Exception responding to issue ", issueID, e>>)
    /\ faulted' = faulted \cup {<<msgNo, i>>}
    /\ pc' = AfterPanic(e)
    /\ i' = i

\* A panic e inside respondToIssueMentioned: the deferred function logs it
\* and the loop goes on with i++.
Panicked(e) ==
    /\ logs' = Append(logs, <<"Exception responding to issue ", issueID, e>>)
    /\ faulted' = faulted \cup {<<msgNo, i>>}
    /\ pc' = AfterPanic(e)
    /\ i' = IF AfterPanic(e) = "loop" THEN i + 1 ELSE i

\* The number of calls made so far to the tracker and to the chat API
ioCount == Len(fetches) + Len(posts)

\* respondToIssueMentioned: issueData := getJiraIssue(issueID)
Fetch ==
    /\ pc = "fetch"
    /\ fetches' = Append(fetches, [msg |-> msgNo, idx |-> i, id |-> issueID,
                                   at |-> ioCount + 1])
    /\ \/ /\ Panicked("fetch")
          /\ UNCHANGED <<issueData, posts>>
       \/ /\ issueData' \in TrackerIssues(issueID)
          /\ pc' = "post"
          /\ UNCHANGED <<i, posts, faulted, logs>>
    /\ UNCHANGED <<events, delivered, message, matches, consumed, ignored,
                   extracted, called, fromBot, echoed>>

ParamsUsernameOther == "jirabot"

\* params.Username of respondToIssueMentioned
ParamsUsername == BotUsername

\* respondToIssueMentioned:
\* api.PostMessage(channel, formatMessage(issueData), params)
Post ==
    /\ pc = "post"
    /\ IF formatMessage(issueData).panic
       THEN /\ Panicked("format")
            /\ UNCHANGED posts
       ELSE /\ \E r \in PostResults :
                 posts' = Append(posts,
                                 [msg      |-> msgNo,
                                  idx      |-> i,
                                  at       |-> ioCount + 1,
                                  id       |-> issueID,
                                  key      |-> issueData.Key,
                                  channel  |-> message.Channel,
                                  text     |-> formatMessage(issueData).text,
                                  username |-> ParamsUsername,
                                  result   |-> r])
            /\ i' = i + 1
            /\ pc' = "loop"
            /\ UNCHANGED <<faulted, logs>>
    /\ UNCHANGED <<events, delivered, message, matches, issueData, consumed,
                   ignored, extracted, called, fetches, fromBot, echoed>>

\* getJiraIssue or api.PostMessage never returns: neither call has a
\* timeout, so the main goroutine stays blocked in it.
Hang ==
    /\ pc \in {"fetch", "post"}
    /\ pc' = "hung"
    /\ UNCHANGED <<events, delivered, message, matches, i, issueData,
                   consumed, ignored, extracted, called, fetches, posts,
                   faulted, fromBot, echoed, logs>>

\* How the chat service marks a reply posted with params.Username = u when
\* it comes back as a message event: the author name, the subtype, or both
EchoMarks(u) ==
    {[Username |-> u, SubType |-> "bot_message"],
     [Username |-> u, SubType |-> ""],
     [Username |-> "", SubType |-> "bot_message"]}

\* The transport delivers a reply the bot has posted back on
\* rtm.IncomingEvents, as a message event of the reply's channel
Echo ==
    /\ Cardinality(echoed) < MaxEchoes
    /\ \E k \in 1..Len(posts) :
          /\ k \notin echoed
          /\ posts[k].result = "ok"
          /\ echoed' = echoed \cup {k}
          /\ \E mark \in EchoMarks(posts[k].username) :
                events' = Append(events,
                                 [type |-> "message", echo |-> TRUE,
                                  msg  |-> [Text     |-> posts[k].text,
                                            Channel  |-> posts[k].channel,
                                            Username |-> mark.Username,
                                            SubType  |-> mark.SubType]])
    /\ UNCHANGED <<delivered, pc, message, matches, i, issueData, consumed,
                   ignored, extracted, called, fetches, posts, faulted,
                   fromBot, logs>>

HandlerNext == Handle \/ Loop \/ Fetch \/ Post

\* The steps of the main goroutine in which every call returns
LoopNext == SelectMessage \/ SelectOther \/ HandlerNext

Next == Deliver \/ LoopNext \/ Hang

Spec == Init /\ [][Next]_vars

\* Every fetch and every send returns, and the main goroutine keeps running
FairSpec == Init /\ [][Deliver \/ LoopNext]_vars /\ WF_vars(LoopNext)

\* The dispatch loop with the bot's replies coming back as message events;
\* only message events are delivered here, so the select only takes that case
EchoNext == DeliverMessage \/ Echo \/ SelectMessage \/ HandlerNext

EchoSpec == Init /\ [][EchoNext]_vars

HandlerSpec == HandlerInit /\ [][HandlerNext]_vars

----------------------------------------------------------------------------
(* Vocabulary of the properties                                            *)

ABC1 == <<"A","B","C","-","1">>

DEF2 == <<"D","E","F","-","2">>

ABC123 == <<"A","B","C","-","1","2","3">>

PROJ42 == <<"P","R","O","J","-","4","2">>

\* handleIncomingMessage has returned for the n-th consumed message
Returned(n) == n < msgNo \/ (n = msgNo /\ pc = "select")

\* The n-th consumed message is one the filter is to reject
Rejected(n) ==
    consumed[n].Username = "JiraBot" \/ consumed[n].SubType = "bot_message"

\* The current message has passed the filter and has been extracted
Extracted == msgNo >= 1 /\ pc # "handle" /\ msgNo \notin ignored

\* The identifiers extracted from the n-th consumed message
IdsOf(n) == extracted[n]

CallsOf(n) == SelectSeq(called, LAMBDA c : c.msg = n)

FetchesOf(n) == SelectSeq(fetches, LAMBDA f : f.msg = n)

RepliesOf(n) == SelectSeq(posts, LAMBDA p : p.msg = n)

IdSeq(calls) == [k \in 1..Len(calls) |-> calls[k].id]

\* The identifiers of message n whose handling did not panic, in order
KeptIds(n, ids) ==
    LET idx == SelectSeq([k \in 1..Len(ids) |-> k],
                         LAMBDA k : <<n, k - 1>> \notin faulted)
    IN  [k \in 1..Len(idx) |-> ids[idx[k]]]

FaultsOf(n) == {f \in faulted : f[1] = n}

Contains(str, sub) ==
    \E s \in 0..(Len(str) - Len(sub)) : SubSeq(str, s + 1, s + Len(sub)) = sub

FirstLine(str) ==
    LET nls == {k \in 1..Len(str) : str[k] = "\n"}
    IN  IF nls = {} THEN str
        ELSE SubSeq(str, 1, (CHOOSE k \in nls : \A m \in nls : k <= m) - 1)

----------------------------------------------------------------------------
\* C1: a panic while handling one identifier never leaves
\* respondToIssueMentioned: once handleIncomingMessage has returned for a
\* processed message, respondToIssueMentioned was called for every
\* extracted identifier in order, and the replies sent are exactly those of
\* the identifiers whose handling did not panic (identifiers [A, B] with A
\* faulting and B not: the one reply for B).
C1_Isolation ==
    /\ pc # "crashed"
    /\ \A n \in 1..Len(consumed) :
          (Returned(n) /\ ~Rejected(n)) =>
              LET ids == IdsOf(n)
              IN  /\ IdSeq(CallsOf(n)) = ids
                  /\ IdSeq(RepliesOf(n)) = KeptIds(n, ids)

C1_Witness ==
    \E n \in 1..Len(consumed) :
        /\ Returned(n)
        /\ consumed[n].Text = TextTwo
        /\ FaultsOf(n) = {<<n, 0>>}
        /\ IdSeq(CallsOf(n)) = <<ABC1, DEF2>>
        /\ IdSeq(RepliesOf(n)) = <<DEF2>>

\* C2 as stated: once handleIncomingMessage has returned for a processed
\* message, the number of replies equals the number of extracted
\* identifiers, even when a fetch failed.
C2_ReplyCountOriginal ==
    \A n \in 1..Len(consumed) :
        (Returned(n) /\ ~Rejected(n)) => Len(RepliesOf(n)) = Len(IdsOf(n))

\* C2 as amended: once handleIncomingMessage has returned for a processed
\* message, the number of replies equals the number of extracted
\* identifiers whose handling did not panic; it is at most the number of
\* identifiers and no identifier gets two replies.
C2_ReplyCount ==
    \A n \in 1..Len(consumed) :
        (Returned(n) /\ ~Rejected(n)) =>
            LET ids == IdsOf(n)
                replies == RepliesOf(n)
            IN  /\ Len(replies) = Len(ids) - Cardinality(FaultsOf(n))
                /\ Len(replies) <= Len(ids)
                /\ \A a, b \in 1..Len(replies) :
                      replies[a].id = replies[b].id => a = b

C2_Witness ==
    \E n \in 1..Len(consumed) :
        /\ Returned(n)
        /\ Len(IdsOf(n)) = 2
        /\ Cardinality(FaultsOf(n)) = 1
        /\ Len(RepliesOf(n)) = 1

\* C3: a message is ignored if and only if its author is "JiraBot" or its
\* subtype is "bot_message", whatever its text and channel.
C3_Filter ==
    \A n \in 1..Len(consumed) :
        (n < msgNo \/ pc # "handle") => (n \in ignored <=> Rejected(n))

C3_Witness ==
    /\ pc = "select"
    /\ msgNo \in ignored
    /\ message.Username = "JiraBot"
    /\ message.SubType = ""
    /\ message.Text = TextCheck

\* C4: a message the filter rejects causes no call of
\* respondToIssueMentioned, no fetch and no reply.
C4_FilteredNoEffect ==
    \A n \in 1..Len(consumed) :
        Rejected(n) =>
            /\ CallsOf(n) = <<>>
            /\ FetchesOf(n) = <<>>
            /\ RepliesOf(n) = <<>>

C4_Witness ==
    \E n \in 1..Len(consumed) :
        /\ Returned(n)
        /\ Rejected(n)
        /\ consumed[n].Text = TextTwo
        /\ consumed[n].Username = "alice"
        /\ n \in ignored

\* The position of the first element of ms equal to x
FirstIndex(ms, x) ==
    CHOOSE k \in 1..Len(ms) : ms[k] = x /\ \A m \in 1..(k - 1) : ms[m] # x

\* t[s..k] is KEY-NUMBER: word characters, a hyphen at j, digits
KeyNumberAt(t, s, j, k) ==
    /\ s < j /\ j < k
    /\ \A p \in s..(j - 1) : t[p] \in WordChars
    /\ t[j] = "-"
    /\ \A p \in (j + 1)..k : t[p] \in DigitChars

\* t[s..k] is delimited: no word character right before s or right after k
Unflanked(t, s, k) ==
    /\ s = 1 \/ t[s - 1] \notin WordChars
    /\ k = Len(t) \/ t[k + 1] \notin WordChars

\* C5: extractIssueIDs returns the upper-cased matches of the text without
\* repetition (matches differing only in case are one identifier), in the
\* order of first occurrence; "see ABC-1 and abc-1 and DEF-2" yields
\* ["ABC-1", "DEF-2"].
C5_DedupOrder ==
    Extracted =>
        LET found == FindAllString(message.Text)
            upper == [k \in 1..Len(found) |-> ToUpper(found[k])]
        IN  /\ \A a, b \in 1..Len(matches) : matches[a] = matches[b] => a = b
            /\ Range(matches) = Range(upper)
            /\ \A a, b \in 1..Len(matches) :
                  a < b => FirstIndex(upper, matches[a]) < FirstIndex(upper, matches[b])
            /\ message.Text = TextOrder => matches = <<ABC1, DEF2>>

C5_Witness ==
    /\ Extracted
    /\ message.Text = TextOrder
    /\ Len(FindAllString(message.Text)) = 3
    /\ matches = <<ABC1, DEF2>>

\* C6: every extracted identifier, and so every identifier fetched from
\* the tracker, is KEY-NUMBER with KEY one or more word characters, NUMBER
\* one or more digits, and contains no lower-case letter.
C6_Shape ==
    LET Shaped(id) ==
            /\ \E j \in 1..Len(id) : KeyNumberAt(id, 1, j, Len(id))
            /\ \A p \in 1..Len(id) : id[p] \notin Range(LowerLetters)
    IN  /\ Extracted => \A k \in 1..Len(matches) : Shaped(matches[k])
        /\ \A k \in 1..Len(fetches) : Shaped(fetches[k].id)

C6_Witness ==
    /\ message.Text = <<"a", "_", "-", "1">>
    /\ Len(fetches) = 1
    /\ fetches[1].id = <<"A", "_", "-", "1">>

\* C7: every extracted identifier is the upper-cased form of an occurrence
\* of KEY-NUMBER in the text that has no word character right before it
\* and none right after it; "XABC-123X" yields nothing and "(ABC-123)"
\* yields ["ABC-123"].
C7_Boundary ==
    Extracted =>
        LET t == message.Text
        IN  /\ \A r \in 1..Len(matches) :
                  \E s, j, k \in 1..Len(t) :
                      /\ KeyNumberAt(t, s, j, k)
                      /\ Unflanked(t, s, k)
                      /\ ToUpper(SubSeq(t, s, k)) = matches[r]
            /\ t = TextFlanked => matches = <<>>
            /\ t = TextParens => matches = <<ABC123>>

C7_Witness ==
    /\ Extracted
    /\ message.Text = TextParens
    /\ matches = <<ABC123>>

\* C8: extractIssueIDs returns a sequence for every text; the sequence is
\* empty exactly when the text has no delimited KEY-NUMBER occurrence (so
\* for "" and for "hello world"), and then the message causes no fetch and
\* no reply.
C8_Total ==
    Extracted =>
        LET t == message.Text
            occurs == \E s, j, k \in 1..Len(t) :
                          KeyNumberAt(t, s, j, k) /\ Unflanked(t, s, k)
        IN  /\ matches = <<>> <=> ~occurs
            /\ t \in {<<>>, TextHello} => matches = <<>>
            /\ matches = <<>> => (called = <<>> /\ fetches = <<>> /\ posts = <<>>)

C8_Witness ==
    /\ Extracted
    /\ pc = "select"
    /\ message.Text = TextHello
    /\ matches = <<>>
    /\ fetches = <<>>

\* C9 as stated: formatMessage does not panic on a fetched ticket whose
\* assignee is nil, so the reply for an unassigned ticket is sent.
C9_FormatterNullSafe ==
    (/\ pc = "post"
     /\ issueData.Fields # Nil
     /\ issueData.Fields[1].Assignee = Nil) => ~formatMessage(issueData).panic

\* C10: every reply goes to the channel of the message it answers, and its
\* first line contains the base URL followed by "/browse/" and the ticket
\* key, and the ticket key as the link text; "check PROJ-42 please" from
\* alice causes one fetch and, the fetch and the formatting succeeding, one
\* reply with "PROJ-42" and base URL + "/browse/PROJ-42".
C10_ReplyTarget ==
    /\ \A k \in 1..Len(posts) :
          LET p == posts[k]
              line == FirstLine(p.text)
          IN  /\ p.channel = consumed[p.msg].Channel
              /\ Contains(line, JiraBaseURL \o <<"/browse/">> \o p.key)
              /\ Contains(line, <<"|">> \o p.key \o <<"> :traffic_light: *Status:* ">>)
    /\ \A n \in 1..Len(consumed) :
          (/\ Returned(n)
           /\ consumed[n].Text = TextCheck
           /\ ~Rejected(n)) =>
              /\ IdSeq(FetchesOf(n)) = <<PROJ42>>
              /\ FaultsOf(n) = {} =>
                    /\ Len(RepliesOf(n)) = 1
                    /\ RepliesOf(n)[1].key = PROJ42
                    /\ Contains(RepliesOf(n)[1].text,
                                JiraBaseURL \o <<"/browse/">> \o PROJ42)

C10_Witness ==
    \E n \in 1..Len(consumed) :
        /\ Returned(n)
        /\ consumed[n].Text = TextCheck
        /\ consumed[n].Username = "alice"
        /\ consumed[n].Channel = "C2"
        /\ Len(RepliesOf(n)) = 1
        /\ RepliesOf(n)[1].channel = "C2"
        /\ Contains(FirstLine(RepliesOf(n)[1].text),
                    <<"https://jira.example.org", "/browse/",
                      "P", "R", "O", "J", "-", "4", "2">>)

\* The call c of respondToIssueMentioned is over: it panicked, or it
\* reached api.PostMessage and that call returned
CallOver(c) ==
    \/ <<c.msg, c.idx>> \in faulted
    \/ \E k \in 1..Len(posts) : posts[k].msg = c.msg /\ posts[k].idx = c.idx

\* The calls of respondToIssueMentioned that are not over
InFlight == {k \in 1..Len(called) : ~CallOver(called[k])}

\* The n-th consumed message is wholly handled: filtered, extracted, and
\* every identifier of it called and over
Complete(n) ==
    /\ Len(extracted) >= n
    /\ Len(CallsOf(n)) = Len(extracted[n])
    /\ \A k \in 1..Len(called) : called[k].msg = n => CallOver(called[k])

\* C11: at most one identifier is in flight, and it is the latest call; an
\* event is taken from the event stream only when every message consumed
\* before is wholly handled; respondToIssueMentioned is called for an
\* identifier only when no earlier call is still in flight.
C11_Sequential ==
    /\ [](/\ Cardinality(InFlight) <= 1
          /\ InFlight # {} => (/\ InFlight = {Len(called)}
                               /\ called[Len(called)].msg = msgNo
                               /\ pc \in {"fetch", "post", "hung"}))
    /\ [][Len(events') < Len(events) =>
             (pc = "select" /\ \A n \in 1..msgNo : Complete(n))]_vars
    /\ [][Len(called') > Len(called) => InFlight = {}]_vars

C11_Witness ==
    /\ pc = "post"
    /\ Len(called) = 2
    /\ InFlight = {2}
    /\ CallOver(called[1])
    /\ Len(events) = 1

\* C12: consuming an event that is not a message leaves the main goroutine
\* at the select and changes nothing but, at most, the log by one entry:
\* no call, no fetch, no reply, no change of the handler's state.
C12_NonMessageInert ==
    [][(Len(events') < Len(events) /\ Head(events).type # "message") =>
          /\ pc = "select" /\ pc' = "select"
          /\ events' = Tail(events)
          /\ logs' = logs \/ (Len(logs') = Len(logs) + 1 /\ SubSeq(logs', 1, Len(logs)) = logs)
          /\ UNCHANGED <<message, matches, i, issueData, consumed, ignored,
                         extracted, called, fetches, posts, faulted,
                         fromBot>>]_vars

C12_Witness ==
    /\ Len(logs) >= 1
    /\ logs[1] = <<"main: Invalid credentials">>
    /\ Len(posts) = 1
    /\ pc = "select"
    /\ events = <<>>

\* The log has an entry of the deferred function naming the identifier id
ExceptionLogged(id) ==
    \E k \in 1..Len(logs) :
        /\ Len(logs[k]) = 3
        /\ logs[k][1] = "Exception responding to issue "
        /\ logs[k][2] = id

\* C13 as stated: every failure of an identifier (the fetch fails, the
\* ticket cannot be formatted, or api.PostMessage fails) is logged with
\* that identifier and no reply is delivered for it.
C13_FailuresLogged ==
    /\ \A k \in 1..Len(called) :
          <<called[k].msg, called[k].idx>> \in faulted =>
              /\ ExceptionLogged(called[k].id)
              /\ \A p \in 1..Len(posts) :
                    ~(posts[p].msg = called[k].msg /\ posts[p].idx = called[k].idx)
    /\ \A p \in 1..Len(posts) :
          posts[p].result = "error" => ExceptionLogged(posts[p].id)

\* The number of events the main goroutine is done with
Processed == delivered - Len(events) - (IF pc = "select" THEN 0 ELSE 1)

\* C14: the main goroutine never terminates, whatever has faulted; every
\* event delivered is eventually consumed and wholly handled; and a message
\* handled after a fault is answered from its own text alone: each of its
\* identifiers is called and the ones that do not fault are answered.
C14_Survives ==
    /\ [](pc # "crashed")
    /\ [](\A n \in 1..msgNo :
            (/\ Returned(n)
             /\ ~Rejected(n)
             /\ \E f \in faulted : f[1] < n) =>
                /\ IdSeq(CallsOf(n)) = extractIssueIDs(consumed[n].Text)
                /\ IdSeq(RepliesOf(n)) = KeptIds(n, IdsOf(n)))
    /\ \A k \in 1..MaxEvents : (delivered >= k) ~> (Processed >= k)

C14_Witness ==
    /\ msgNo = 2
    /\ pc = "select"
    /\ FaultsOf(1) = {<<1, 0>>, <<1, 1>>}
    /\ FaultsOf(2) = {}
    /\ consumed[2].Text = TextTwo
    /\ IdSeq(RepliesOf(2)) = <<ABC1, DEF2>>

\* C15: while one message is handled, each identifier is fetched at most
\* once and posted at most once; a post is made only after the fetch of the
\* same identifier, and only if that identifier's handling did not panic;
\* nothing is fetched or posted again after a failure.
C15_SingleAttempt ==
    /\ \A a, b \in 1..Len(fetches) :
          (fetches[a].msg = fetches[b].msg /\ fetches[a].id = fetches[b].id)
              => a = b
    /\ \A a, b \in 1..Len(posts) :
          (posts[a].msg = posts[b].msg /\ posts[a].id = posts[b].id) => a = b
    /\ \A p \in 1..Len(posts) :
          /\ <<posts[p].msg, posts[p].idx>> \notin faulted
          /\ \E f \in 1..Len(fetches) :
                /\ fetches[f].msg = posts[p].msg
                /\ fetches[f].id = posts[p].id
                /\ fetches[f].at < posts[p].at

C15_Witness ==
    /\ pc = "select"
    /\ msgNo = 1
    /\ consumed[1].Text = TextTwo
    /\ faulted = {<<1, 0>>}
    /\ IdSeq(fetches) = <<ABC1, DEF2>>
    /\ IdSeq(posts) = <<DEF2>>
    /\ posts[1].result = "error"

\* C16: every reply is posted under the name "JiraBot"; a reply that comes
\* back on the event stream under that name or with subtype "bot_message"
\* is ignored and causes no call, no fetch and no reply, so a message
\* never gets more replies than it has identifiers and a reply gets none.
C16_NoFeedback ==
    /\ \A p \in 1..Len(posts) : posts[p].username = "JiraBot"
    /\ \A n \in fromBot :
          /\ (n < msgNo \/ pc # "handle") => n \in ignored
          /\ CallsOf(n) = <<>>
          /\ FetchesOf(n) = <<>>
          /\ RepliesOf(n) = <<>>
    /\ \A n \in 1..Len(extracted) :
          Len(RepliesOf(n)) <= (IF n \in fromBot THEN 0 ELSE Len(extracted[n]))

C16_Witness ==
    /\ pc = "select"
    /\ events = <<>>
    /\ msgNo = 2
    /\ fromBot = {2}
    /\ consumed[1].Text = TextCheck
    /\ consumed[2].Username = "JiraBot"
    /\ consumed[2].SubType = ""
    /\ extractIssueIDs(consumed[2].Text) = <<PROJ42>>
    /\ ignored = {2}
    /\ Len(posts) = 1

\* s is a prefix of t
IsPrefix(s, t) == Len(s) <= Len(t) /\ SubSeq(t, 1, Len(s)) = s

\* C17: while a fetch or a send has not returned no event is consumed, and
\* once the call never returns the main goroutine stays in it: no event is
\* consumed, nothing more is called, fetched or posted, and the events
\* delivered meanwhile stay on the event stream.
C17_HangBlocks ==
    /\ [][(pc \in {"fetch", "post", "hung"}) =>
             /\ consumed' = consumed
             /\ IsPrefix(events, events')]_vars
    /\ [][pc = "hung" =>
             /\ pc' = "hung"
             /\ UNCHANGED <<message, matches, i, called, fetches, posts,
                            faulted, ignored, extracted>>]_vars

C17_Witness ==
    /\ pc = "hung"
    /\ message.Text = TextTwo
    /\ i = 0
    /\ posts = <<>>
    /\ Len(events) = 1
    /\ Head(events).type = "message"

\* The calls made to the tracker and to the chat API
IOCalls ==
    {[msg |-> fetches[k].msg, at |-> fetches[k].at] : k \in 1..Len(fetches)}
    \cup {[msg |-> posts[k].msg, at |-> posts[k].at] : k \in 1..Len(posts)}

\* The position of id in ids
PositionIn(ids, id) == CHOOSE k \in 1..Len(ids) : ids[k] = id

\* C18: the replies to one message come in the order of its extracted
\* identifiers (the order of first occurrence in the text) and are those
\* of the identifiers whose handling did not fault; every fetch and reply
\* of a message consumed earlier precedes every fetch and reply of a
\* message consumed later.
C18_ReplyOrder ==
    /\ \A a, b \in 1..Len(posts) :
          (a < b /\ posts[a].msg = posts[b].msg) =>
              PositionIn(extracted[posts[a].msg], posts[a].id)
                  < PositionIn(extracted[posts[b].msg], posts[b].id)
    /\ \A n \in 1..Len(consumed) :
          (Returned(n) /\ ~Rejected(n)) =>
              IdSeq(RepliesOf(n)) = KeptIds(n, IdsOf(n))
    /\ \A x, y \in IOCalls : x.msg < y.msg => x.at < y.at

C18_Witness ==
    /\ pc = "select"
    /\ msgNo = 2
    /\ consumed[1].Text = TextTwo
    /\ consumed[2].Text = TextCheck
    /\ IdSeq(posts) = <<ABC1, DEF2, PROJ42>>
    /\ IdSeq(fetches) = <<ABC1, DEF2, PROJ42>>

====
